---- MODULE Spec2Model ----
(***************************************************************************)
(* A model of the WebServer-Python HTTP/1.x framer and session driver:     *)
(*   http_parser.py  HTTPParser.parse_message                              *)
(*   server_v1.py    RouteMatcher, DataProvider, HTTPProcessor,            *)
(*                   HTTPSession.handle, Server.start                      *)
(* Bytes are integers 0..255; decoded text is a sequence of one-character  *)
(* strings.                                                                *)
(***************************************************************************)
EXTENDS Integers, Sequences, FiniteSets, TLC

VARIABLES
    data,        \* ParserSpec: the bytes handed to parse_message
    pending,     \* ParserSpec: bytes of the input not yet delivered
    outcome,     \* ParserSpec: result of parse_message(data), or NotCalled
    first,       \* ParserSpec: result of the parse made before the delivery
    gen,         \* ParserSpec: how the input was built (start line, headers, tail)
    k,           \* ParserSpec: the split point, number of bytes delivered first
    buf,         \* DataProvider._data of the session
    active,      \* HTTPSession.active
    pc,          \* where handle() is: "recv", "drain", "closed", "raised"
    sent,        \* the responses written with connection.sendall, in order
    wire,        \* what the peer has still to send
    recvd,       \* every byte connection.recv has returned, in order
    extracted,   \* the messages get_one_http_message has returned, in order
    yields,      \* messages returned since the last recv
    drainLen,    \* length of the buffer right after the last recv
    stream,      \* the requests the peer sends, as built
    env,         \* the routing table of the port and the files on disk
    accepted,    \* Server.start: connections accepted so far
    live,        \* Server.start: the connections whose handle() has not ended
    table,       \* RouteSpec: the locations given to match_location
    target,      \* RouteSpec: the uri given to match_location
    matched      \* RouteSpec: what match_location returned, or NotMatched

pvars == <<data, pending, outcome, first, gen, k>>
svars == <<buf, active, pc, sent, wire, recvd, extracted, yields, drainLen,
           stream, env, accepted, live>>
rvars == <<table, target, matched>>
vars == <<pvars, svars, rvars>>

----------------------------------------------------------------------------
(* Bytes and text.                                                          *)

LowerAlpha == <<"a","b","c","d","e","f","g","h","i","j","k","l","m",
                "n","o","p","q","r","s","t","u","v","w","x","y","z">>
UpperAlpha == <<"A","B","C","D","E","F","G","H","I","J","K","L","M",
                "N","O","P","Q","R","S","T","U","V","W","X","Y","Z">>
DigitChars == <<"0","1","2","3","4","5","6","7","8","9">>

\* The ISO-8859-1 code points the model uses: byte value -> character.
Latin1 ==
    [b \in 97..122 |-> LowerAlpha[b - 96]] @@
    [b \in 65..90 |-> UpperAlpha[b - 64]] @@
    [b \in 48..57 |-> DigitChars[b - 47]] @@
    (9 :> "\t" @@ 10 :> "\n" @@ 13 :> "\r" @@ 32 :> " " @@ 43 :> "+" @@
     45 :> "-" @@ 46 :> "." @@ 47 :> "/" @@ 58 :> ":" @@ 95 :> "_")

Ord == [c \in {Latin1[b] : b \in DOMAIN Latin1} |->
            CHOOSE b \in DOMAIN Latin1 : Latin1[b] = c]

\* bytes.decode("iso-8859-1"): every byte is one character
Decode(bytes) == [i \in 1..Len(bytes) |-> Latin1[bytes[i]]]

\* str.encode() of ASCII text, and the b"..." literals of the source
Encode(text) == [i \in 1..Len(text) |-> Ord[text[i]]]

----------------------------------------------------------------------------
(* Python's sequence primitives, on bytes and on text alike.                *)

\* s[:n]
PySliceTo(s, n) ==
    LET stop == IF n < 0 THEN (IF Len(s) + n < 0 THEN 0 ELSE Len(s) + n)
                ELSE (IF n > Len(s) THEN Len(s) ELSE n)
    IN  SubSeq(s, 1, stop)

\* s[n:]
PySliceFrom(s, n) ==
    LET start == IF n < 0 THEN (IF Len(s) + n < 0 THEN 0 ELSE Len(s) + n)
                 ELSE (IF n > Len(s) THEN Len(s) ELSE n)
    IN  SubSeq(s, start + 1, Len(s))

\* s.find(sub): the lowest 0-based index where sub occurs, or -1
Find(s, sub) ==
    LET hits == {i \in 0..(Len(s) - Len(sub)) : SubSeq(s, i + 1, i + Len(sub)) = sub}
    IN  IF hits = {} THEN -1 ELSE CHOOSE i \in hits : \A j \in hits : i <= j

\* s.split(sub, maxsplit); maxsplit = -1 is "no limit"
RECURSIVE PySplit(_, _, _)
PySplit(s, sub, maxsplit) ==
    LET i == Find(s, sub)
    IN  IF maxsplit = 0 \/ i = -1 THEN <<s>>
        ELSE <<SubSeq(s, 1, i)>> \o
             PySplit(SubSeq(s, i + Len(sub) + 1, Len(s)), sub, maxsplit - 1)

Whitespace == {" ", "\t", "\n", "\r"}

\* str.strip()
Strip(s) ==
    LET keep == {i \in 1..Len(s) : s[i] \notin Whitespace}
    IN  IF keep = {} THEN <<>>
        ELSE SubSeq(s, CHOOSE i \in keep : \A j \in keep : i <= j,
                       CHOOSE i \in keep : \A j \in keep : i >= j)

LowerChar(c) ==
    IF \E i \in 1..26 : UpperAlpha[i] = c
    THEN LowerAlpha[CHOOSE i \in 1..26 : UpperAlpha[i] = c]
    ELSE c

\* str.lower()
Lower(s) == [i \in 1..Len(s) |-> LowerChar(s[i])]

IsDigit(c) == \E i \in 1..10 : DigitChars[i] = c
DigitVal(c) == (CHOOSE i \in 1..10 : DigitChars[i] = c) - 1

RECURSIVE DecimalValue(_)
DecimalValue(digits) ==
    IF digits = <<>> THEN 0
    ELSE 10 * DecimalValue(SubSeq(digits, 1, Len(digits) - 1))
         + DigitVal(digits[Len(digits)])

\* int(s): surrounding whitespace, an optional sign, digits with single
\* underscores between them; anything else raises ValueError (ok = FALSE)
PyInt(s) ==
    LET t == Strip(s)
        signed == t # <<>> /\ t[1] \in {"+", "-"}
        body == IF signed THEN Tail(t) ELSE t
        wellFormed ==
            /\ body # <<>>
            /\ \A i \in 1..Len(body) :
                \/ IsDigit(body[i])
                \/ /\ body[i] = "_"
                   /\ 1 < i /\ i < Len(body)
                   /\ IsDigit(body[i - 1]) /\ IsDigit(body[i + 1])
        digits == SelectSeq(body, IsDigit)
        magnitude == DecimalValue(digits)
    IN  IF ~wellFormed THEN [ok |-> FALSE, val |-> 0]
        ELSE [ok |-> TRUE,
              val |-> IF signed /\ t[1] = "-" THEN 0 - magnitude ELSE magnitude]

----------------------------------------------------------------------------
(* http_parser.py                                                           *)

None == [none |-> TRUE]

CR == "\r"
LF == "\n"
CRLF == <<CR, LF>>

\* sep = b"\r\n\r\n"
sep == Encode(CRLF \o CRLF)

ContentLengthName == <<"c","o","n","t","e","n","t","-","l","e","n","g","t","h">>

HTTPMessage(method, url, version, headers, body) ==
    [method |-> method, url |-> url, version |-> version,
     headers |-> headers, body |-> body]

\* What one call of parse_message does: return (None, 0), return
\* (message, consumed), raise IncompleteMessageError or raise
\* InvalidMessageError.
Returned(message, consumed) ==
    [kind |-> IF message = None THEN "Empty" ELSE "Complete",
     message |-> message, consumed |-> consumed, reason |-> "none"]
RaiseIncomplete(reason) ==
    [kind |-> "Incomplete", message |-> None, consumed |-> 0, reason |-> reason]
RaiseInvalid(reason) ==
    [kind |-> "Invalid", message |-> None, consumed |-> 0, reason |-> reason]

NotCalled ==
    [kind |-> "NotCalled", message |-> None, consumed |-> 0, reason |-> "none"]

EmptyDict == <<>>

\* headers[name] = value
DictPut(headers, name, value) ==
    [n \in DOMAIN headers \cup {name} |-> IF n = name THEN value ELSE headers[n]]

\* The loop over header_lines: ok = FALSE when a line without ":" raises.
RECURSIVE ParseHeaderLines(_, _)
ParseHeaderLines(header_lines, headers) ==
    IF header_lines = <<>> THEN [ok |-> TRUE, headers |-> headers]
    ELSE LET line == Head(header_lines)
         IN  IF line = <<>> THEN ParseHeaderLines(Tail(header_lines), headers)
             ELSE IF Find(line, <<":">>) = -1
                  THEN [ok |-> FALSE, headers |-> headers]
                  ELSE LET nv == PySplit(line, <<":">>, 1)
                       IN  ParseHeaderLines(
                               Tail(header_lines),
                               DictPut(headers, Lower(Strip(nv[1])), Strip(nv[2])))

\* A FrameBody that wants one byte more than the declared length.
FrameBody_NeedsOneMore(method, url, version, headers, rest, idx) ==
    IF ContentLengthName \in DOMAIN headers
    THEN LET length == PyInt(headers[ContentLengthName])
         IN  IF ~length.ok THEN RaiseInvalid("content-length")
             ELSE IF Len(rest) <= length.val THEN RaiseIncomplete("body")
             ELSE Returned(
                      HTTPMessage(method, url, version, headers,
                                  PySliceTo(rest, length.val)),
                      idx + Len(sep) + length.val)
    ELSE Returned(HTTPMessage(method, url, version, headers, <<>>),
                  idx + Len(sep))

\* A FrameBody that leaves the terminator out of the consumed count.
FrameBody_ForgetsTerminator(method, url, version, headers, rest, idx) ==
    IF ContentLengthName \in DOMAIN headers
    THEN LET length == PyInt(headers[ContentLengthName])
         IN  IF ~length.ok THEN RaiseInvalid("content-length")
             ELSE IF Len(rest) < length.val THEN RaiseIncomplete("body")
             ELSE Returned(
                      HTTPMessage(method, url, version, headers,
                                  PySliceTo(rest, length.val)),
                      idx + length.val)
    ELSE Returned(HTTPMessage(method, url, version, headers, <<>>), idx)

\* The body length and the consumed count, steps F and the return.
FrameBody(method, url, version, headers, rest, idx) ==
    IF ContentLengthName \in DOMAIN headers
    THEN LET length == PyInt(headers[ContentLengthName])
         IN  IF ~length.ok THEN RaiseInvalid("content-length")
             ELSE IF Len(rest) < length.val THEN RaiseIncomplete("body")
             ELSE Returned(
                      HTTPMessage(method, url, version, headers,
                                  PySliceTo(rest, length.val)),
                      idx + Len(sep) + length.val)
    ELSE Returned(HTTPMessage(method, url, version, headers, <<>>),
                  idx + Len(sep))

\* A start line split at every space.
StartLineParts_SplitsAll(start_line) == PySplit(start_line, <<" ">>, -1)

\* The start line, step D.
StartLineParts(start_line) == PySplit(start_line, <<" ">>, 2)

\* s.rfind(sub): the highest 0-based index where sub occurs, or -1
FindLast(s, sub) ==
    LET hits == {i \in 0..(Len(s) - Len(sub)) : SubSeq(s, i + 1, i + Len(sub)) = sub}
    IN  IF hits = {} THEN -1 ELSE CHOOSE i \in hits : \A j \in hits : i >= j

\* A parse_message that takes the last terminator of the buffer for the end
\* of the header block.
parse_message_LastTerminator(bytes) ==
    IF bytes = <<>> THEN Returned(None, 0)
    ELSE LET idx == FindLast(bytes, sep)
         IN  IF idx = -1 THEN RaiseIncomplete("headers")
             ELSE LET header_text == Decode(SubSeq(bytes, 1, idx))
                      rest == PySliceFrom(bytes, idx + Len(sep))
                      lines == PySplit(header_text, CRLF, -1)
                      start_line == lines[1]
                      header_lines == Tail(lines)
                      parts == StartLineParts(start_line)
                  IN  IF Len(parts) # 3 THEN RaiseInvalid("start line")
                      ELSE LET parsed == ParseHeaderLines(header_lines, EmptyDict)
                           IN  IF ~parsed.ok THEN RaiseInvalid("header line")
                               ELSE FrameBody(parts[1], parts[2], parts[3],
                                              parsed.headers, rest, idx)

\* HTTPParser.parse_message(data)
parse_message(bytes) ==
    IF bytes = <<>> THEN Returned(None, 0)
    ELSE LET idx == Find(bytes, sep)
         IN  IF idx = -1 THEN RaiseIncomplete("headers")
             ELSE LET header_text == Decode(SubSeq(bytes, 1, idx))
                      rest == PySliceFrom(bytes, idx + Len(sep))
                      lines == PySplit(header_text, CRLF, -1)
                      start_line == lines[1]
                      header_lines == Tail(lines)
                      parts == StartLineParts(start_line)
                  IN  IF Len(parts) # 3 THEN RaiseInvalid("start line")
                      ELSE LET parsed == ParseHeaderLines(header_lines, EmptyDict)
                           IN  IF ~parsed.ok THEN RaiseInvalid("header line")
                               ELSE FrameBody(parts[1], parts[2], parts[3],
                                              parsed.headers, rest, idx)

----------------------------------------------------------------------------
(* The inputs of the parser: a start line, header lines, the terminator and *)
(* a tail, each written down with what it denotes.                          *)

MaxTail == 3

ConnectionName == <<"c","o","n","n","e","c","t","i","o","n">>
KeepAliveValue == <<"k","e","e","p","-","a","l","i","v","e">>

\* fields: the number of whitespace-delimited fields of the line;
\* parts: method, target and version of a line of three fields
StartRoot == [text |-> <<"G"," ","/"," ","H">>, fields |-> 3,
              parts |-> << <<"G">>, <<"/">>, <<"H">> >>]
StartA == [text |-> <<"G"," ","/","a"," ","H">>, fields |-> 3,
           parts |-> << <<"G">>, <<"/","a">>, <<"H">> >>]
StartTwoFields == [text |-> <<"G"," ","/">>, fields |-> 2, parts |-> <<>>]
StartOneField == [text |-> <<"G">>, fields |-> 1, parts |-> <<>>]
StartFourFields == [text |-> <<"G"," ","/"," ","H"," ","x">>, fields |-> 4,
                    parts |-> <<>>]
StartDoubleSpace == [text |-> <<"G"," "," ","/">>, fields |-> 2, parts |-> <<>>]

StartLines == {StartRoot, StartA, StartTwoFields, StartOneField,
               StartFourFields, StartDoubleSpace}

NoLength == [present |-> FALSE, numeric |-> FALSE, val |-> 0]
Length(n) == [present |-> TRUE, numeric |-> TRUE, val |-> n]
BadLength == [present |-> TRUE, numeric |-> FALSE, val |-> 0]

\* colon: every line has its ":"; dict: the headers the lines denote;
\* cl: the content-length they declare
HdrNone == [lines |-> <<>>, colon |-> TRUE, dict |-> EmptyDict, cl |-> NoLength]
HdrKeepAlive ==
    [lines |-> << ConnectionName \o <<":"," ">> \o KeepAliveValue >>,
     colon |-> TRUE, dict |-> (ConnectionName :> KeepAliveValue), cl |-> NoLength]
HdrLength2 ==
    [lines |-> << ContentLengthName \o <<":"," ","2">> >>,
     colon |-> TRUE, dict |-> (ContentLengthName :> <<"2">>), cl |-> Length(2)]
HdrKeepAliveLength2 ==
    [lines |-> << <<"C","o","n","n","e","c","t","i","o","n",":"," ",
                    "K","e","e","p","-","A","l","i","v","e">>,
                  ContentLengthName \o <<":"," ","2">> >>,
     colon |-> TRUE,
     dict |-> (ConnectionName :> <<"K","e","e","p","-","A","l","i","v","e">>
               @@ ContentLengthName :> <<"2">>),
     cl |-> Length(2)]
HdrUpperLength0 ==
    [lines |-> << <<"C","o","n","t","e","n","t","-","L","e","n","g","t","h",
                    ":","0"," ">> >>,
     colon |-> TRUE, dict |-> (ContentLengthName :> <<"0">>), cl |-> Length(0)]
HdrTwoLengths ==
    [lines |-> << ContentLengthName \o <<":"," ","1">>,
                  ContentLengthName \o <<":"," ","3">> >>,
     colon |-> TRUE, dict |-> (ContentLengthName :> <<"3">>), cl |-> Length(3)]
HdrLengthMinus1 ==
    [lines |-> << ContentLengthName \o <<":"," ","-","1">> >>,
     colon |-> TRUE, dict |-> (ContentLengthName :> <<"-","1">>),
     cl |-> Length(-1)]
HdrLengthMinus99 ==
    [lines |-> << ContentLengthName \o <<":","-","9","9">> >>,
     colon |-> TRUE, dict |-> (ContentLengthName :> <<"-","9","9">>),
     cl |-> Length(-99)]
HdrLengthX ==
    [lines |-> << ContentLengthName \o <<":"," ","x">> >>,
     colon |-> TRUE, dict |-> (ContentLengthName :> <<"x">>), cl |-> BadLength]
HdrNoColon ==
    [lines |-> << <<"b","a","d">> >>,
     colon |-> FALSE, dict |-> EmptyDict, cl |-> NoLength]

HeaderBlocks == {HdrNone, HdrKeepAlive, HdrLength2, HdrKeepAliveLength2,
                 HdrUpperLength0, HdrTwoLengths, HdrLengthMinus1,
                 HdrLengthMinus99, HdrLengthX, HdrNoColon}

TailOf(n) == [i \in 1..n |-> 97 + ((i - 1) % 26)]

Tails == {TailOf(n) : n \in 0..MaxTail}

RECURSIVE JoinLines(_)
JoinLines(lines) ==
    IF lines = <<>> THEN <<>> ELSE CRLF \o Head(lines) \o JoinLines(Tail(lines))

\* The header block of an input: everything before the terminator.
HeadOf(g) == Encode(g.start.text \o JoinLines(g.hdr.lines))

\* The bytes of an input on the wire.
WireOf(g) == HeadOf(g) \o Encode(CRLF \o CRLF) \o g.tail

\* The input is a request in the wire format: METHOD SP TARGET SP VERSION,
\* "Name: value" lines, and a content-length, when there is one, that is a
\* number >= 0.
WellFormedHead(g) ==
    /\ g.start.fields = 3
    /\ g.hdr.colon
    /\ g.hdr.cl.present => (g.hdr.cl.numeric /\ g.hdr.cl.val >= 0)

DeclaredLength(g) == IF g.hdr.cl.present THEN g.hdr.cl.val ELSE 0

\* The input is exactly one complete well-formed message.
SingleMessage(g) == WellFormedHead(g) /\ Len(g.tail) = DeclaredLength(g)

\* The message a well-formed input denotes, given its first n tail bytes as body.
MessageOf(g) ==
    HTTPMessage(g.start.parts[1], g.start.parts[2], g.start.parts[3],
                g.hdr.dict, SubSeq(g.tail, 1, DeclaredLength(g)))

----------------------------------------------------------------------------
(* server_v1.py                                                             *)

RecvSize == 1024
MaxMsgs == 2
MaxYields == 32

StartsWith(s, prefix) ==
    Len(prefix) <= Len(s) /\ SubSeq(s, 1, Len(prefix)) = prefix

\* A loop that keeps the first key that is a prefix of the uri.
RECURSIVE MatchLoop_FirstMatch(_, _, _, _)
MatchLoop_FirstMatch(items, uri, matched_location, longest_prefix) ==
    IF items = <<>> THEN matched_location
    ELSE LET path == Head(items)[1]
             root_dir == Head(items)[2]
         IN  IF StartsWith(uri, path) /\ matched_location = None
             THEN MatchLoop_FirstMatch(Tail(items), uri, [root |-> root_dir],
                                       Len(path))
             ELSE MatchLoop_FirstMatch(Tail(items), uri, matched_location,
                                       longest_prefix)

\* The loop of RouteMatcher.match_location over locations.items(); a table
\* is the sequence of its (path, root_dir) items in iteration order.
RECURSIVE MatchLoop(_, _, _, _)
MatchLoop(items, uri, matched_location, longest_prefix) ==
    IF items = <<>> THEN matched_location
    ELSE LET path == Head(items)[1]
             root_dir == Head(items)[2]
         IN  IF StartsWith(uri, path) /\ Len(path) > longest_prefix
             THEN MatchLoop(Tail(items), uri, [root |-> root_dir], Len(path))
             ELSE MatchLoop(Tail(items), uri, matched_location, longest_prefix)

\* RouteMatcher.match_location(locations, uri): None or [root |-> root_dir]
match_location(locations, uri) == MatchLoop(locations, uri, None, -1)

\* DataProvider.data = new_data
data_setter(_data, new_data) == _data \o new_data

\* DataProvider.reduce_data(size)
reduce_data(_data, size) == PySliceFrom(_data, size)

\* The classes an exception of the parser is an instance of.
ExceptionBases ==
    [IncompleteMessageError |-> {"IncompleteMessageError", "Exception"},
     InvalidMessageError |-> {"InvalidMessageError", "Exception"}]

RaisedClass(o) ==
    IF o.kind = "Incomplete" THEN "IncompleteMessageError"
    ELSE "InvalidMessageError"

\* A handler that catches every exception.
ProcessorCatches_All(class) == "Exception" \in ExceptionBases[class]

\* except RuntimeError
ProcessorCatches(class) == "RuntimeError" \in ExceptionBases[class]

\* HTTPProcessor.get_one_http_message on a buffer _data: the message
\* returned (or None), the buffer afterwards, and whether the call raised.
get_one_http_message(_data) ==
    LET o == parse_message(_data)
    IN  IF o.kind \in {"Incomplete", "Invalid"}
        THEN [raised |-> ~ProcessorCatches(RaisedClass(o)),
              message |-> None, consumed |-> 0, data |-> _data]
        ELSE [raised |-> FALSE, message |-> o.message, consumed |-> o.consumed,
              data |-> IF o.message # None
                       THEN reduce_data(_data, o.consumed) ELSE _data]

HtmlRoot == <<"h","t","m","l">>
IndexUrl == <<"/","i","n","d","e","x",".","h","t","m","l">>
NoneText == <<"N","o","n","e">>
NotFoundBody == Encode(<<"4","0","4"," ","N","o","t"," ","F","o","u","n","d">>)

\* A resolution that asks RouteMatcher for the root of "/" as well.
FilePath_AlwaysRoutes(routes, request_url) ==
    LET root == match_location(routes, request_url)
    IN  (IF root = None THEN NoneText ELSE root.root)
            \o (IF request_url = <<"/">> THEN IndexUrl ELSE request_url)

\* file_path = f"{root}{url}" of HTTPSession.handle
FilePath(routes, request_url) ==
    IF request_url = <<"/">> THEN HtmlRoot \o IndexUrl
    ELSE LET root == match_location(routes, request_url)
         IN  (IF root = None THEN NoneText ELSE root.root) \o request_url

\* "keep-alive" in request.headers.get("connection", "").lower()
WantsKeepAlive(request) ==
    /\ ConnectionName \in DOMAIN request.headers
    /\ Find(Lower(request.headers[ConnectionName]), KeepAliveValue) # -1

\* A response as its status line, Content-Length, Connection and body.
Response200(body, keep) ==
    [status |-> 200, content_length |-> Len(body), keep_alive |-> keep,
     body |-> body]

\* HTTPSession._send_404
Response404 ==
    [status |-> 404, content_length |-> Len(NotFoundBody), keep_alive |-> FALSE,
     body |-> NotFoundBody]

\* The response the body of the drain loop writes for a request.
ResponseFor(request, e) ==
    LET file_path == FilePath(e.routes, request.url)
    IN  IF file_path \in DOMAIN e.files
        THEN Response200(e.files[file_path], WantsKeepAlive(request))
        ELSE Response404

\* self.active after the body of the drain loop
ActiveAfter(request, e, was_active) ==
    LET file_path == FilePath(e.routes, request.url)
    IN  IF file_path \in DOMAIN e.files /\ ~WantsKeepAlive(request)
        THEN FALSE
        ELSE was_active

\* A sendall that puts the response before what was written.
sendall_Prepends(written, response) == <<response>> \o written

\* connection.sendall(...)
sendall(written, response) == Append(written, response)

\* The requests a peer sends.
Item(s, h, n) == [start |-> s, hdr |-> h, tail |-> TailOf(n)]
SessionItems ==
    { Item(StartRoot, HdrKeepAlive, 0),
      Item(StartA, HdrKeepAlive, 0),
      Item(StartA, HdrNone, 0),
      Item(StartRoot, HdrKeepAliveLength2, 2),
      Item(StartTwoFields, HdrNone, 0) }

\* Up to MaxMsgs requests back to back, and a request of length -99 alone.
Streams ==
    UNION {[1..n -> SessionItems] : n \in 1..MaxMsgs}
    \cup { <<Item(StartRoot, HdrLengthMinus99, 0)>> }

RECURSIVE WireOfStream(_)
WireOfStream(items) ==
    IF items = <<>> THEN <<>>
    ELSE WireOf(Head(items)) \o WireOfStream(Tail(items))

EnvServed ==
    [routes |-> << << <<"/">>, <<"w">> >>, << <<"/","a">>, <<"v">> >> >>,
     files |-> (HtmlRoot \o IndexUrl :> <<105>>) @@ (<<"v","/","a">> :> <<97>>)]
EnvBare == [routes |-> <<>>, files |-> <<>>]
\* No route, and a file a in a directory named None.
EnvNoneDir ==
    [routes |-> <<>>, files |-> (NoneText \o <<"/","a">> :> <<110>>)]
Envs == {EnvServed, EnvBare, EnvNoneDir}

Min(a, b) == IF a < b THEN a ELSE b

ParserIdle ==
    /\ data = <<>> /\ pending = <<>> /\ outcome = NotCalled
    /\ first = NotCalled /\ k = 0
    /\ gen = Item(StartRoot, HdrNone, 0)

SessionIdle ==
    /\ buf = <<>> /\ active = TRUE /\ pc = "idle" /\ sent = <<>>
    /\ wire = <<>> /\ recvd = <<>> /\ extracted = <<>> /\ yields = 0
    /\ drainLen = 0 /\ stream = <<>> /\ env = EnvBare
    /\ accepted = 0 /\ live = {}

NotMatched == [called |-> FALSE]

RouteIdle == table = <<>> /\ target = <<>> /\ matched = NotMatched

\* HTTPSession.__init__ and the peer that connected.
Init ==
    /\ ParserIdle
    /\ RouteIdle
    /\ accepted = 1 /\ live = {1}
    /\ stream \in Streams
    /\ env \in Envs
    /\ wire = WireOfStream(stream)
    /\ buf = <<>> /\ active = TRUE /\ pc = "recv" /\ sent = <<>>
    /\ recvd = <<>> /\ extracted = <<>> /\ yields = 0 /\ drainLen = 0

\* data = self.connection.recv(1024) returns bytes, which are appended.
SRecv ==
    /\ pc = "recv"
    /\ \E n \in 1..Min(Len(wire), RecvSize) :
           /\ buf' = data_setter(buf, SubSeq(wire, 1, n))
           /\ recvd' = recvd \o SubSeq(wire, 1, n)
           /\ wire' = SubSeq(wire, n + 1, Len(wire))
    /\ pc' = "drain"
    /\ yields' = 0
    /\ drainLen' = Len(buf')
    /\ UNCHANGED <<active, sent, extracted, stream, env, accepted, live, pvars,
                   rvars>>

\* recv returns b"": break, then self.connection.close().
SRecvEOF ==
    /\ pc = "recv"
    /\ pc' = "closed"
    /\ live' = live \ {accepted}
    /\ UNCHANGED <<buf, active, sent, wire, recvd, extracted, yields, drainLen,
                   stream, env, accepted, pvars, rvars>>

\* One turn of "while request := get_one_http_message()": the message is
\* taken off the buffer, resolved, and answered.
SDispatch ==
    /\ pc = "drain"
    /\ yields < MaxYields
    /\ \E got \in {get_one_http_message(buf)} :
           /\ ~got.raised /\ got.message # None
           /\ buf' = got.data
           /\ sent' = sendall(sent, ResponseFor(got.message, env))
           /\ active' = ActiveAfter(got.message, env, active)
           /\ extracted' = Append(extracted,
                  [message |-> got.message, consumed |-> got.consumed,
                   occupied |-> SubSeq(buf, 1, Find(buf, sep) + Len(sep)
                                               + Len(got.message.body))])
    /\ yields' = yields + 1
    /\ UNCHANGED <<pc, wire, recvd, drainLen, stream, env, accepted, live,
                   pvars, rvars>>

\* get_one_http_message returns None: the drain loop ends; "while
\* self.active" either reads again or falls through to connection.close().
SDrainEnd ==
    /\ pc = "drain"
    /\ \E got \in {get_one_http_message(buf)} :
           /\ ~got.raised /\ got.message = None
           /\ buf' = got.data
    /\ pc' = IF active THEN "recv" ELSE "closed"
    /\ live' = IF active THEN live ELSE live \ {accepted}
    /\ UNCHANGED <<active, sent, wire, recvd, extracted, yields, drainLen,
                   stream, env, accepted, pvars, rvars>>

\* get_one_http_message lets an exception through: it leaves handle() and
\* Server.start, and connection.close() is not reached.
SRaise ==
    /\ pc = "drain"
    /\ \E got \in {get_one_http_message(buf)} :
           /\ got.raised
           /\ buf' = got.data
    /\ pc' = "raised"
    /\ live' = live \ {accepted}
    /\ UNCHANGED <<active, sent, wire, recvd, extracted, yields, drainLen,
                   stream, env, accepted, pvars, rvars>>

Next == SRecv \/ SRecvEOF \/ SDispatch \/ SDrainEnd \/ SRaise

Spec == Init /\ [][Next]_vars

\* ------------------------------------------------------------------------
\* Server.start: the accept loop around HTTPSession.handle.

MaxConns == 2

\* What the peers of the accepted connections send.
ServerStreams ==
    { <<Item(StartRoot, HdrKeepAlive, 0)>>,
      <<Item(StartA, HdrNone, 0)>>,
      <<Item(StartTwoFields, HdrNone, 0)>> }

\* A server that accepts the next connection whatever the session does.
CanAccept_Always(position) == TRUE

\* "while True: s.accept(); session.handle()": accept is reached before
\* the first session and after handle() has returned, not while it runs and
\* not after an exception has left the loop.
CanAccept(position) == position \in {"idle", "closed"}

ServerInit ==
    /\ ParserIdle
    /\ RouteIdle
    /\ accepted = 0 /\ live = {}
    /\ env \in Envs
    /\ stream = <<>> /\ wire = <<>>
    /\ buf = <<>> /\ active = TRUE /\ pc = "idle" /\ sent = <<>>
    /\ recvd = <<>> /\ extracted = <<>> /\ yields = 0 /\ drainLen = 0

\* conn, addr = s.accept(); session = HTTPSession(conn, addr, port, config):
\* a new session with a DataProvider of its own.
SAccept ==
    /\ CanAccept(pc)
    /\ accepted < MaxConns
    /\ accepted' = accepted + 1
    /\ live' = live \cup {accepted + 1}
    /\ \E items \in ServerStreams :
           /\ stream' = items
           /\ wire' = WireOfStream(items)
    /\ buf' = <<>> /\ active' = TRUE /\ pc' = "recv" /\ sent' = <<>>
    /\ recvd' = <<>> /\ extracted' = <<>> /\ yields' = 0 /\ drainLen' = 0
    /\ UNCHANGED <<env, pvars, rvars>>

ServerNext == SAccept \/ SRecv \/ SRecvEOF \/ SDispatch \/ SDrainEnd \/ SRaise

ServerSpec == ServerInit /\ [][ServerNext]_vars

\* ------------------------------------------------------------------------
\* RouteMatcher.match_location applied to tables and uris.

MaxRoutes == 3

RoutePaths ==
    { <<>>, <<"/">>, <<"/","a">>, <<"/","a","/","b">>, <<"/","b">> }

RouteUris ==
    RoutePaths \cup { <<"/","a","b">>, <<"a">>, <<"/","a","/">> }

\* The root_dir a table of RouteSpec gives to a path.
RootOf(path) == <<"r">> \o path

\* The keys of a dict of at most MaxRoutes keys, in insertion order.
RouteKeyOrders ==
    { g \in UNION {[1..m -> RoutePaths] : m \in 0..MaxRoutes} :
          \A i, j \in DOMAIN g : g[i] = g[j] => i = j }

RouteTables ==
    { [i \in DOMAIN g |-> <<g[i], RootOf(g[i])>>] : g \in RouteKeyOrders }

RInit ==
    /\ ParserIdle
    /\ SessionIdle
    /\ table \in RouteTables
    /\ target \in RouteUris
    /\ matched = NotMatched

RMatch ==
    /\ matched = NotMatched
    /\ matched' = [called |-> TRUE, result |-> match_location(table, target)]
    /\ UNCHANGED <<table, target, pvars, svars>>

RNext == RMatch

RouteSpec == RInit /\ [][RNext]_vars

----------------------------------------------------------------------------
(* The parser on its own: an input is cut at k, the first part is parsed,   *)
(* the rest is delivered, and the whole is parsed again.                    *)

PInit ==
    /\ \E s \in StartLines, h \in HeaderBlocks, t \in Tails :
           gen = [start |-> s, hdr |-> h, tail |-> t]
    /\ k \in 0..Len(WireOf(gen))
    /\ data = SubSeq(WireOf(gen), 1, k)
    /\ pending = SubSeq(WireOf(gen), k + 1, Len(WireOf(gen)))
    /\ outcome = NotCalled
    /\ first = NotCalled
    /\ SessionIdle
    /\ RouteIdle

\* A call HTTPParser.parse_message(data).
PParse ==
    /\ outcome.kind = "NotCalled"
    /\ outcome' = parse_message(data)
    /\ UNCHANGED <<data, pending, first, gen, k, svars, rvars>>

\* The rest of the input arrives and is appended to what was parsed before.
PDeliver ==
    /\ outcome.kind # "NotCalled"
    /\ pending # <<>>
    /\ data' = data \o pending
    /\ pending' = <<>>
    /\ first' = outcome
    /\ outcome' = NotCalled
    /\ UNCHANGED <<gen, k, svars, rvars>>

PNext == PParse \/ PDeliver

ParserSpec == PInit /\ [][PNext]_vars

----------------------------------------------------------------------------
(* Claims about HTTPParser.parse_message, checked under ParserSpec.         *)

Called == outcome.kind # "NotCalled"

\* The buffer holds the whole header block and its terminator.
HasTerminator == Len(data) >= Len(HeadOf(gen)) + 4

\* The number of bytes of the buffer after the terminator.
AfterTerminator == Len(data) - Len(HeadOf(gen)) - 4

SpacesIn(text) == Cardinality({i \in 1..Len(text) : text[i] = " "})

\* C1: for a complete well-formed message M of L bytes and a split point
\* 0 < k < L, parsing the first k bytes raises IncompleteMessageError and
\* consumes nothing, and parsing all L bytes returns exactly M with
\* bytes_consumed = L.
C1_IncrementalDelivery ==
    SingleMessage(gen) =>
        /\ (Called /\ 0 < Len(data) /\ Len(data) < Len(WireOf(gen)))
               => (outcome.kind = "Incomplete" /\ outcome.consumed = 0
                   /\ outcome.message = None)
        /\ (first.kind # "NotCalled" /\ 0 < k /\ k < Len(WireOf(gen)))
               => first.kind = "Incomplete"
        /\ (Called /\ pending = <<>>)
               => (outcome.kind = "Complete"
                   /\ outcome.message = MessageOf(gen)
                   /\ outcome.consumed = Len(WireOf(gen)))

\* A message with a body, split inside the body, parsed before and after
\* the second part arrived.
C1_Witness ==
    /\ SingleMessage(gen) /\ gen.hdr = HdrKeepAliveLength2
    /\ k = Len(WireOf(gen)) - 1
    /\ first.kind = "Incomplete" /\ first.reason = "body"
    /\ outcome.kind = "Complete" /\ outcome.consumed = Len(WireOf(gen))

\* C6 (as claimed): whenever parse_message returns a message, bytes_consumed
\* n satisfies 0 < n <= len(buffer) and is the number of bytes the message
\* occupies (header block, terminator, body).
C6_ConsumeBound ==
    outcome.kind = "Complete" =>
        /\ 0 < outcome.consumed
        /\ outcome.consumed <= Len(data)
        /\ outcome.consumed
               = Len(HeadOf(gen)) + 4 + Len(outcome.message.body)

\* C7 (as claimed): a content-length that is not a non-negative integer makes
\* parse_message raise InvalidMessageError, and no returned message has one.
C7_LengthRejected ==
    (Called /\ HasTerminator /\ gen.hdr.cl.present
     /\ (~gen.hdr.cl.numeric \/ gen.hdr.cl.val < 0))
        => outcome.kind = "Invalid"

\* C8: with a valid header block of h bytes, a content-length N >= 0 and r
\* bytes after the terminator, parse_message raises IncompleteMessageError
\* when r < N and otherwise returns the first N bytes after the terminator
\* as the body with bytes_consumed = h + 4 + N; without a content-length the
\* body is empty and bytes_consumed = h + 4.
C8_FixedLengthFraming ==
    (Called /\ HasTerminator /\ WellFormedHead(gen)) =>
        LET h == Len(HeadOf(gen))
            N == DeclaredLength(gen)
            r == AfterTerminator
        IN  IF r < N
            THEN outcome.kind = "Incomplete"
            ELSE /\ outcome.kind = "Complete"
                 /\ outcome.message.body = SubSeq(gen.tail, 1, N)
                 /\ outcome.consumed = h + 4 + N

\* Three bytes after the terminator of a message that declares two.
C8_Witness ==
    /\ Called /\ WellFormedHead(gen) /\ gen.hdr = HdrLength2
    /\ AfterTerminator = 3
    /\ outcome.kind = "Complete" /\ Len(outcome.message.body) = 2
    /\ outcome.consumed = Len(data) - 1

\* C9 (as claimed): a buffer with the terminator whose start line does not
\* have exactly three whitespace-delimited fields is Invalid.
C9_ThreeFieldsOrInvalid ==
    (Called /\ HasTerminator /\ gen.start.fields # 3)
        => outcome.kind = "Invalid"

\* C9 (amended): a buffer with the terminator whose start line has fewer
\* than two space characters is Invalid, never Incomplete and never
\* Complete; a start line with two or more spaces is never rejected for its
\* start line, whatever follows the second space.
C9_FewerThanTwoSpacesInvalid ==
    (Called /\ HasTerminator) =>
        IF SpacesIn(gen.start.text) < 2
        THEN outcome.kind = "Invalid" /\ outcome.reason = "start line"
        ELSE outcome.reason # "start line"

\* "GET /"-like start lines, and one of four fields, with the terminator.
C9_Witness ==
    /\ Called /\ HasTerminator
    /\ \/ gen.start = StartTwoFields /\ outcome.kind = "Invalid"
       \/ gen.start = StartFourFields /\ outcome.kind = "Complete"

\* What may still arrive after a truncated buffer: the rest of a start
\* line, of a header line or of the terminator, and body bytes.
HeadExtensions ==
    { <<>>,
      Encode(<<LF>>), Encode(CRLF), Encode(<<LF>> \o CRLF), sep,
      Encode(<<" ","H">>) \o sep, Encode(<<"/"," ","H">>) \o sep,
      Encode(<<" ","/"," ","H">>) \o sep, Encode(<<"H">>) \o sep,
      Encode(<<":">>) \o sep, Encode(<<"0">>) \o sep,
      Encode(<<":","0">>) \o sep,
      Encode(CRLF \o ContentLengthName \o <<":","0">>) \o sep,
      Encode(<<LF>> \o ContentLengthName \o <<":","0">>) \o sep,
      Encode(ContentLengthName \o <<":","0">>) \o sep }

Extensions == {e \o TailOf(MaxTail) : e \in HeadExtensions}

\* C10 (as claimed): a buffer on which parse_message raises
\* IncompleteMessageError can be extended to one on which it returns a
\* message.
C10_IncompleteRecoverable ==
    outcome.kind = "Incomplete" =>
        \E x \in Extensions : parse_message(data \o x).kind = "Complete"

\* The buffers no extension can complete: a finished start line with fewer
\* than two spaces, or a finished header line without ":".
Doomed ==
    \/ /\ Len(data) >= Len(gen.start.text) + 2
       /\ SpacesIn(gen.start.text) < 2
    \/ /\ Len(data) >= Len(HeadOf(gen)) + 2
       /\ ~gen.hdr.colon

\* The extensions above complete every buffer that is not doomed.
ExtensionsSuffice ==
    (outcome.kind = "Incomplete" /\ ~Doomed) =>
        \E x \in Extensions : parse_message(data \o x).kind = "Complete"

\* C11: a buffer on which parse_message raises InvalidMessageError stays
\* Invalid whatever is appended to it: the rest of its input, the rest of a
\* line or of a terminator, further header lines, body bytes.
C11_InvalidStaysInvalid ==
    /\ outcome.kind = "Invalid" =>
           \A x \in Extensions \cup {pending} :
               parse_message(data \o x).kind = "Invalid"
    /\ (first.kind = "Invalid" /\ Called) => outcome.kind = "Invalid"

\* A buffer with a non-numeric content-length was Invalid before its tail
\* arrived and is Invalid after.
C11_Witness ==
    /\ gen.hdr = HdrLengthX /\ gen.start = StartRoot /\ Len(gen.tail) = MaxTail
    /\ k = Len(HeadOf(gen)) + 4
    /\ first.kind = "Invalid" /\ first.reason = "content-length"
    /\ outcome.kind = "Invalid"

\* C20 (as claimed): when parse_message returns (M, n) on a buffer, it
\* returns the same M and n on the buffer followed by any further bytes.
C20_CompleteStable ==
    outcome.kind = "Complete" =>
        \A x \in Extensions \cup {pending} :
            parse_message(data \o x) = outcome

----------------------------------------------------------------------------
(* Claims about HTTPSession.handle, checked under Spec.                     *)

\* The number of leading requests of the stream that lie wholly in the
\* first n bytes.
RECURSIVE WholeItems(_, _)
WholeItems(items, n) ==
    IF items = <<>> \/ Len(WireOf(Head(items))) > n THEN 0
    ELSE 1 + WholeItems(Tail(items), n - Len(WireOf(Head(items))))

\* The number of leading requests of the stream that are complete
\* well-formed messages.
RECURSIVE WellFormedPrefix(_)
WellFormedPrefix(items) ==
    IF items = <<>> \/ ~SingleMessage(Head(items)) THEN 0
    ELSE 1 + WellFormedPrefix(Tail(items))

\* The well-formed requests that have arrived in full.
Arrived == Min(WholeItems(stream, Len(recvd)), WellFormedPrefix(stream))

\* C2 (as claimed): when the buffer left by a read parses to Incomplete or
\* Empty, the session, still active, goes back to recv with its buffer
\* kept, nothing sent and the connection open.
C2_IncompleteStaysOpen ==
    [][(pc = "drain" /\ active
        /\ parse_message(buf).kind \in {"Incomplete", "Empty"})
           => (pc' = "recv" /\ buf' = buf /\ sent' = sent)]_vars

\* C3: whenever handle() is not inside the drain loop (it is about to read
\* again, or has ended), every well-formed request that has arrived in full
\* has been dispatched, in the order of arrival, and the responses were
\* written in that same order, one per request.
C3_PipeliningOrder ==
    pc # "drain" =>
        /\ Len(extracted) >= Arrived
        /\ Len(sent) = Len(extracted)
        /\ \A i \in 1..Arrived :
               /\ extracted[i].message = MessageOf(stream[i])
               /\ sent[i] = ResponseFor(MessageOf(stream[i]), env)

\* Two requests that arrived in one read were both dispatched by one drain,
\* with different responses, and the session reads again.
C3_Witness ==
    /\ pc = "recv" /\ yields = 2 /\ Arrived = 2 /\ Len(recvd) = drainLen
    /\ sent[1] # sent[2]
    /\ sent[1].status = 200 /\ sent[2].status = 200

RECURSIVE OccupiedBytes(_)
OccupiedBytes(msgs) ==
    IF msgs = <<>> THEN <<>>
    ELSE Head(msgs).occupied \o OccupiedBytes(Tail(msgs))

\* C4 (as claimed): the bytes of the messages extracted so far followed by
\* the buffer are the bytes received, and each consumption removed exactly
\* bytes_consumed bytes, the bytes of the message.
C4_LosslessBuffering ==
    /\ OccupiedBytes(extracted) \o buf = recvd
    /\ \A i \in 1..Len(extracted) :
           extracted[i].consumed = Len(extracted[i].occupied)

\* C5 (as claimed): a drain yields no more messages than the buffer had
\* bytes when it started.
C5_DrainBounded == yields <= drainLen

\* C12 (as claimed): once the parse of the buffer has signalled Invalid and
\* handle() has left the drain, the connection has been closed.
C12_InvalidCloses ==
    (pc # "drain" /\ parse_message(buf).kind = "Invalid") => pc = "closed"

\* C13: a call of get_one_http_message on a buffer that does not parse to
\* Complete leaves the buffer as it was, and on Invalid the exception
\* leaves the call: the drain does not end as if no message were there yet.
C13_NoConsumeUnlessComplete ==
    [][(pc = "drain" /\ parse_message(buf).kind # "Complete")
           => /\ buf' = buf
              /\ get_one_http_message(buf).data = buf
              /\ parse_message(buf).kind = "Invalid" => pc' = "raised"]_vars

\* An invalid request arrived behind a dispatched one; the exception left
\* the call with the invalid bytes still in the buffer.
C13_Witness ==
    /\ pc = "raised" /\ Len(extracted) = 1
    /\ parse_message(buf).kind = "Invalid"
    /\ buf = WireOf(stream[2])

\* C14 (as claimed): dispatching a request without keep-alive in its
\* connection header leaves the session marked for closure, whatever the
\* response; dispatching one with keep-alive leaves the mark as it was.
C14_CloseUnlessKeepAlive ==
    [][Len(extracted') = Len(extracted) + 1
           => IF WantsKeepAlive(extracted'[Len(extracted')].message)
              THEN active' = active
              ELSE ~active']_vars

\* C15 (as claimed): once the session is marked for closure nothing more
\* is dispatched, written or read.
C15_ClosingResponseIsLast ==
    [][~active => (sent' = sent /\ extracted' = extracted /\ recvd' = recvd)]_vars

\* The root RouteMatcher is documented to give: that of the longest key of
\* the table that is a prefix of the uri, None when there is none.
PrefixKeys(locations, uri) ==
    {i \in 1..Len(locations) : StartsWith(uri, locations[i][1])}

LongestPrefixRoot(locations, uri) ==
    IF PrefixKeys(locations, uri) = {} THEN None
    ELSE LET i == CHOOSE j \in PrefixKeys(locations, uri) :
                      \A h \in PrefixKeys(locations, uri) :
                          Len(locations[h][1]) <= Len(locations[j][1])
         IN  [root |-> locations[i][2]]

\* The response for the file at path: 200 with its contents, or 404.
Loaded(path, request) ==
    IF path \in DOMAIN env.files
    THEN [status |-> 200, content_length |-> Len(env.files[path]),
          keep_alive |-> WantsKeepAlive(request), body |-> env.files[path]]
    ELSE [status |-> 404, content_length |-> Len(NotFoundBody),
          keep_alive |-> FALSE, body |-> NotFoundBody]

\* C16 (as claimed): every message yielded has exactly one response: 404
\* when RouteMatcher gives no root or the file is missing, 200 with the
\* contents of the file otherwise.
C16_OneResponsePerMessage ==
    /\ Len(sent) = Len(extracted)
    /\ \A i \in 1..Len(extracted) :
           LET request == extracted[i].message
               root == IF request.url = <<"/">> THEN [root |-> HtmlRoot]
                       ELSE LongestPrefixRoot(env.routes, request.url)
               url == IF request.url = <<"/">> THEN IndexUrl ELSE request.url
           IN  IF root = None THEN sent[i].status = 404
               ELSE sent[i] = Loaded(root.root \o url, request)

\* C18: a request for "/" is answered from html/index.html whatever the
\* routing table holds; a request for another target that the table
\* matches is answered from the root of its longest matching key.
C18_RootBypassesRoutes ==
    \A i \in 1..Len(extracted) :
        LET request == extracted[i].message
            root == LongestPrefixRoot(env.routes, request.url)
        IN  /\ request.url = <<"/">> =>
                   sent[i] = Loaded(HtmlRoot \o IndexUrl, request)
            /\ (request.url # <<"/">> /\ root # None) =>
                   sent[i] = Loaded(root.root \o request.url, request)

\* With a table that has an entry for "/", a request for "/" was answered
\* with html/index.html and a request for /a with the file of its route.
C18_Witness ==
    /\ env = EnvServed /\ Len(sent) = 2
    /\ extracted[1].message.url = <<"/">> /\ sent[1].body = <<105>>
    /\ extracted[2].message.url = <<"/","a">> /\ sent[2].body = <<97>>

\* ------------------------------------------------------------------------
\* Claims about RouteMatcher.match_location, checked under RouteSpec.

\* The table in another iteration order.
Reordered(locations, p) == [i \in DOMAIN locations |-> locations[p[i]]]

\* C17: match_location returns the root of the longest key of the table
\* that is a prefix of the uri, None when no key is; two keys that are
\* prefixes of the uri and equally long are the same key, so the result is
\* the same for every iteration order of the table.
C17_LongestPrefixAnyOrder ==
    matched.called =>
        /\ matched.result = LongestPrefixRoot(table, target)
        /\ PrefixKeys(table, target) = {} <=> matched.result = None
        /\ \A i, j \in PrefixKeys(table, target) :
               Len(table[i][1]) = Len(table[j][1]) => i = j
        /\ \A p \in Permutations(DOMAIN table) :
               match_location(Reordered(table, p), target) = matched.result

\* The longest matching key comes first in the table and two shorter
\* matching keys follow it.
C17_Witness ==
    /\ matched.called
    /\ Cardinality(PrefixKeys(table, target)) >= 3
    /\ matched.result = [root |-> table[1][2]]
    /\ \A i \in 2..Len(table) : Len(table[i][1]) < Len(table[1][1])

\* ------------------------------------------------------------------------
\* Claims about Server.start, checked under ServerSpec.

\* C19: at most one session is running at any time, and it is the one
\* accepted last; while it runs no connection can be accepted; the buffer
\* holds only bytes that this session received.
C19_OneSessionAtATime ==
    /\ Cardinality(live) <= 1
    /\ live \subseteq {accepted}
    /\ pc \in {"recv", "drain"} <=> live # {}
    /\ live # {} => ~ENABLED SAccept
    /\ \E n \in 0..Len(recvd) : buf = SubSeq(recvd, n + 1, Len(recvd))

\* The second connection is being served, with a buffer of its own, after
\* the session of the first has ended.
C19_Witness ==
    /\ accepted = 2 /\ live = {2}
    /\ pc = "drain" /\ Len(sent) = 1 /\ buf = <<>>

====
